---- MODULE Spec2Model ----
(***************************************************************************)
(* The shipping-bill extraction pipeline of src/main.py: the response      *)
(* parser, the bounded retry loop around the model call, the shape         *)
(* normalizer, the projection of each row onto COLUMNS, and the            *)
(* per-document loop that accumulates rows and errors.                     *)
(*                                                                         *)
(* A response text is a sequence of lexemes.  A lexeme is a record         *)
(* [k, s]: k is "p" for one of the punctuation characters [ ] { } , :      *)
(* "str" for a JSON string literal (s is its content), "num" for a number  *)
(* literal, "null" for the literal null, and "w" for a word of prose,      *)
(* which is no JSON lexeme.  Brackets occur only as lexemes of their own   *)
(* (never inside a string literal or a word).                              *)
(*                                                                         *)
(* A decoded value is a record tagged by t: "str", "num", "null" (field    *)
(* s), "list" (field e, the sequence of elements) or "dict" (field m, the  *)
(* sequence of <<key, value>> pairs in insertion order).                   *)
(***************************************************************************)
EXTENDS Integers, Sequences, FiniteSets, TLC

VARIABLES nfiles, idx, pc, attempt, all_rows, errors, calls, fails, resp, last, row_src

vars == <<nfiles, idx, pc, attempt, all_rows, errors, calls, fails, resp, last, row_src>>

\* ---------------------------------------------------------------- bounds
NumDocs == 3

\* ------------------------------------------------------------- constants
\* retries: int = 3
retries == 3

COLUMNS ==
  << "Sr. No.", "SB NO.", "S/B Date", "LEO Date", "CUSTOMER NAME", "FINAL INVOICE NO",
     "SB. SOLAR / OTHER GOODS", "PORT CODE", "INCOTERMS", "COUNTRY", "H.S. Itch code",
     "PRODUCT GROUP", "Qty", "Unit", "FOB Value declared by us (S/B)in FC",
     "Currency of export", "Custom Exchange Rate in FC", "LEO Date Exchange Rate in in FC",
     "FOB Value as per SB in INR", "FOB Value as per LEO ex rate in INR",
     "ACTUAL FRT + INSURANC  IN FC", "Total Invoice Value in FC as per SB",
     "PAYMENT RECEIPT", "PAYMENT OUTSTANDING", "Total Invoice Value in INR as per SB",
     "SCHEME (ADV/DFIA/DRAWBACK)", "EPCG LICECE", "Drawback cap per unit in Rs. (₹)",
     "DBK %", "DRAWBACK Receivable on fob", "DRAWBCK Scrol NO", "Scroll Date",
     "DBK Realized BEFORE 31.03.2026", "SHORT REALIZATION", "BAL DBK",
     "REASONS OF BAL DBK", "REMARKS FOR ACTION TAKEN FOR RECOVERY AS ON DTD. XX.XX.2020",
     "RoDTEP%", "RoDTEP RECEIVABLE", "RoDTEP Y/N", "Transmitted Y/N",
     "RoDTEP REALIZE BEFORE 31.03.2026", "SCRIP NUMBER", "SCRIP ISSUE DATE",
     "SORT REALIZAION", "BAL RoDTEP", "REASONS OF BAL RoDTEP",
     "DBK Not Realized BUT PAYMENT OUTSTANDING > 9 MONTH",
     "Reason for BAL/SHORTFALL",
     "REMARKS FOR ACTION TAKEN FOR RECOVERY AS ON DTD.",
     "BOOKING IN SAP" >>

ColumnSet == {COLUMNS[i] : i \in 1..Len(COLUMNS)}

\* errors.append((f.name, "No material items extracted (empty response)."))
NoItemsMsg == "No material items extracted (empty response)."

\* ---------------------------------------------------------------- values
VStr(s) == [t |-> "str", s |-> s]
VNum(s) == [t |-> "num", s |-> s]
VNull == [t |-> "null", s |-> "null"]
VList(e) == [t |-> "list", e |-> e]
VDict(m) == [t |-> "dict", m |-> m]

\* isinstance(x, list), isinstance(x, dict)
IsList(x) == x.t = "list"
IsDict(x) == x.t = "dict"

\* --------------------------------------------------------------- lexemes
P(c) == [k |-> "p", s |-> c]
S(c) == [k |-> "str", s |-> c]
N(c) == [k |-> "num", s |-> c]
NUL == [k |-> "null", s |-> "null"]
W(c) == [k |-> "w", s |-> c]

\* ------------------------------------------------------------ json.loads
\* The outcome of decoding: ok = FALSE stands for the exception json.loads
\* raises; otherwise v is the value and n the index after its last lexeme.
Fail == [ok |-> FALSE, v |-> VNull, n |-> 0]
Ok(v, n) == [ok |-> TRUE, v |-> v, n |-> n]

\* d[k] = v on a dict under construction: a repeated key keeps its place
\* and takes the later value.
DictPut(m, k, v) ==
  IF \E i \in 1..Len(m) : m[i][1] = k
  THEN [i \in 1..Len(m) |-> IF m[i][1] = k THEN <<k, v>> ELSE m[i]]
  ELSE Append(m, <<k, v>>)

RECURSIVE ParseValue(_, _), ParseElems(_, _, _), ParseMembers(_, _, _)

ParseValue(txt, i) ==
  IF i > Len(txt) THEN Fail
  ELSE LET c == txt[i] IN
    CASE c.k = "str" -> Ok(VStr(c.s), i + 1)
      [] c.k = "num" -> Ok(VNum(c.s), i + 1)
      [] c.k = "null" -> Ok(VNull, i + 1)
      [] c = P("[") ->
           IF i + 1 <= Len(txt) /\ txt[i + 1] = P("]")
           THEN Ok(VList(<<>>), i + 2)
           ELSE ParseElems(txt, i + 1, <<>>)
      [] c = P("{") ->
           IF i + 1 <= Len(txt) /\ txt[i + 1] = P("}")
           THEN Ok(VDict(<<>>), i + 2)
           ELSE ParseMembers(txt, i + 1, <<>>)
      [] OTHER -> Fail

ParseElems(txt, i, acc) ==
  LET r == ParseValue(txt, i) IN
    IF ~r.ok \/ r.n > Len(txt) THEN Fail
    ELSE IF txt[r.n] = P(",") THEN ParseElems(txt, r.n + 1, Append(acc, r.v))
    ELSE IF txt[r.n] = P("]") THEN Ok(VList(Append(acc, r.v)), r.n + 1)
    ELSE Fail

ParseMembers(txt, i, acc) ==
  IF i + 1 > Len(txt) \/ txt[i].k # "str" \/ txt[i + 1] # P(":") THEN Fail
  ELSE LET r == ParseValue(txt, i + 2) IN
    IF ~r.ok \/ r.n > Len(txt) THEN Fail
    ELSE IF txt[r.n] = P(",")
         THEN ParseMembers(txt, r.n + 1, DictPut(acc, txt[i].s, r.v))
    ELSE IF txt[r.n] = P("}")
         THEN Ok(VDict(DictPut(acc, txt[i].s, r.v)), r.n + 1)
    ELSE Fail

\* json.loads(text): the whole text must be one value.
json_loads(txt) ==
  LET r == ParseValue(txt, 1) IN
    IF r.ok /\ r.n = Len(txt) + 1 THEN r ELSE Fail

\* -------------------------------------------------- _extract_json_block
\* re.search(r"(\[.*\]|\{.*\})", text, re.DOTALL): the leftmost position
\* where an alternative matches, the first alternative tried first, and .*
\* greedy: from an opening bracket to the LAST closing bracket of its kind
\* in the text.  <<>> stands for None.
Closer(c) == IF c = P("[") THEN P("]") ELSE P("}")

MatchesAt(txt, p) ==
  /\ txt[p] \in {P("["), P("{")}
  /\ \E q \in (p + 1)..Len(txt) : txt[q] = Closer(txt[p])

LastCloser(txt, p) ==
  CHOOSE q \in (p + 1)..Len(txt) :
    /\ txt[q] = Closer(txt[p])
    /\ \A q2 \in (q + 1)..Len(txt) : txt[q2] # Closer(txt[p])

\* Mutant: the pattern is lazy (.*?): the block ends at the FIRST closing
\* bracket of its kind after the opening one.
FirstCloser(txt, p) ==
  CHOOSE q \in (p + 1)..Len(txt) :
    /\ txt[q] = Closer(txt[p])
    /\ \A q2 \in (p + 1)..(q - 1) : txt[q2] # Closer(txt[p])

_extract_json_block_Lazy(txt) ==
  IF \E p \in 1..Len(txt) : MatchesAt(txt, p)
  THEN LET p == CHOOSE p \in 1..Len(txt) :
                  MatchesAt(txt, p) /\ \A p2 \in 1..(p - 1) : ~MatchesAt(txt, p2)
       IN SubSeq(txt, p, FirstCloser(txt, p))
  ELSE <<>>

_extract_json_block(txt) ==
  IF \E p \in 1..Len(txt) : MatchesAt(txt, p)
  THEN LET p == CHOOSE p \in 1..Len(txt) :
                  MatchesAt(txt, p) /\ \A p2 \in 1..(p - 1) : ~MatchesAt(txt, p2)
       IN SubSeq(txt, p, LastCloser(txt, p))
  ELSE <<>>

\* Python's truth value of a decoded value.
Truthy(v) ==
  CASE v.t = "list" -> v.e # <<>>
    [] v.t = "dict" -> v.m # <<>>
    [] v.t = "str" -> v.s # ""
    [] v.t = "num" -> v.s # "0"
    [] OTHER -> FALSE

\* Mutant: a decoded value is returned only if it is non-empty
\* (parsed = json.loads(...); if parsed: return parsed).
ParseResponse_NonEmptyOnly(txt) ==
  LET whole == json_loads(txt) IN
    IF whole.ok /\ Truthy(whole.v) THEN whole
    ELSE LET block == _extract_json_block(txt) IN
      IF block # <<>> /\ json_loads(block).ok /\ Truthy(json_loads(block).v)
      THEN json_loads(block) ELSE Fail

\* One pass of the body of the retry loop on a response text: the value
\* returned, or ok = FALSE when the loop goes on to the next attempt.
ParseResponse(txt) ==
  LET whole == json_loads(txt) IN
    IF whole.ok THEN whole
    ELSE LET block == _extract_json_block(txt) IN
      IF block # <<>> THEN json_loads(block) ELSE Fail

\* --------------------------------------------------- normalize_extracted
AllDicts(v) == \A i \in 1..Len(v.e) : IsDict(v.e[i])

NestedRows(v) == IsList(v) /\ AllDicts(v)

\* Mutant: a list is returned only if all its elements are dicts.
normalize_extracted_StrictList(extracted) ==
  IF IsList(extracted) THEN (IF AllDicts(extracted) THEN extracted.e ELSE <<>>)
  ELSE IF IsDict(extracted) THEN
    IF \E i \in 1..Len(extracted.m) : NestedRows(extracted.m[i][2])
    THEN LET i == CHOOSE i \in 1..Len(extracted.m) :
                    /\ NestedRows(extracted.m[i][2])
                    /\ \A j \in 1..(i - 1) : ~NestedRows(extracted.m[j][2])
         IN extracted.m[i][2].e
    ELSE <<extracted>>
  ELSE <<>>

\* Mutant: an empty list is no nested sequence of rows
\* (isinstance(v, list) and v and all(...)).
NonEmptyRows(v) == IsList(v) /\ v.e # <<>> /\ AllDicts(v)

normalize_extracted_NonEmptyRows(extracted) ==
  IF IsList(extracted) THEN extracted.e
  ELSE IF IsDict(extracted) THEN
    IF \E i \in 1..Len(extracted.m) : NonEmptyRows(extracted.m[i][2])
    THEN LET i == CHOOSE i \in 1..Len(extracted.m) :
                    /\ NonEmptyRows(extracted.m[i][2])
                    /\ \A j \in 1..(i - 1) : ~NonEmptyRows(extracted.m[j][2])
         IN extracted.m[i][2].e
    ELSE <<extracted>>
  ELSE <<>>

normalize_extracted(extracted) ==
  IF IsList(extracted) THEN extracted.e
  ELSE IF IsDict(extracted) THEN
    IF \E i \in 1..Len(extracted.m) : NestedRows(extracted.m[i][2])
    THEN LET i == CHOOSE i \in 1..Len(extracted.m) :
                    /\ NestedRows(extracted.m[i][2])
                    /\ \A j \in 1..(i - 1) : ~NestedRows(extracted.m[j][2])
         IN extracted.m[i][2].e
    ELSE <<extracted>>
  ELSE <<>>

\* ------------------------------------------------ process_single_pdf_bytes
\* r.get(col, "")
DictGet(r, col, default) ==
  IF \E i \in 1..Len(r.m) : r.m[i][1] = col
  THEN r.m[CHOOSE i \in 1..Len(r.m) : r.m[i][1] = col][2]
  ELSE default

\* Mutant: the candidate is copied and the missing columns added, so its
\* other keys stay ({**{col: "" for col in COLUMNS}, **r}).
CleanRow_KeepKeys(r) ==
  [col \in ColumnSet \cup {r.m[i][1] : i \in 1..Len(r.m)} |-> DictGet(r, col, VStr(""))]

\* {col: r.get(col, "") for col in COLUMNS}
CleanRow(r) == [col \in ColumnSet |-> DictGet(r, col, VStr(""))]

\* Mutant: the loop ends at the first element that is no dict (break for
\* continue).
RECURSIVE CleanRows_StopAtNonDict(_)
CleanRows_StopAtNonDict(rows) ==
  IF rows = <<>> THEN <<>>
  ELSE IF ~IsDict(Head(rows)) THEN <<>>
  ELSE <<CleanRow(Head(rows))>> \o CleanRows_StopAtNonDict(Tail(rows))

RECURSIVE CleanRows(_)
CleanRows(rows) ==
  IF rows = <<>> THEN <<>>
  ELSE IF ~IsDict(Head(rows)) THEN CleanRows(Tail(rows))
  ELSE <<CleanRow(Head(rows))>> \o CleanRows(Tail(rows))

\* ------------------------------------------------------ the environment
\* What the model collaborator may answer.  Bodies are JSON texts (and two
\* that are not); a response is a body between a prefix and a suffix of
\* prose, either of which may be empty or hold a stray bracket.
LB == P("[")
RB == P("]")
LC == P("{")
RC == P("}")
CM == P(",")
CL == P(":")

Row1 == <<LC, S("SB NO."), CL, S("1"), RC>>
Row2 == <<LC, S("SB NO."), CL, S("2"), CM, S("extra"), CL, S("x"), RC>>

Bodies ==
  { <<LB>> \o Row1 \o <<RB>>,
    <<LB, RB>>,
    <<LC, S("SB NO."), CL, S("1"), CM, S("extra"), CL, S("x"), RC>>,
    <<LC, S("x"), CL, N("1"), CM, S("rows"), CL, LB>> \o Row1 \o <<CM>> \o Row2
       \o <<RB, RC>>,
    <<S("123")>>,
    <<W("sorry")>>,
    <<LB>> \o Row1 \o <<CM>> \o Row2 \o <<RB>>,
    <<LC, RC>>,
    <<LC, S("items"), CL, LB, RB, RC>>,
    <<LC, S("items"), CL, LB, RB, CM, S("rows"), CL, LB>> \o Row1 \o <<RB, RC>>,
    <<LC, S("items"), CL, LB, N("7"), RB, CM, S("rows"), CL, LB>> \o Row1
       \o <<RB, RC>>,
    <<LC, S("SB NO."), CL, S("1"), CM, S("items"), CL, LB, N("7"), CM>> \o Row1
       \o <<RB, RC>>,
    <<LB, LC, S("SB NO."), CL, N("7"), CM, S("Qty"), CL, NUL, CM,
      S("Unit"), CL, LB, S("kg"), RB, RC, RB>>,
    <<N("7")>>,
    <<NUL>>,
    <<LB, N("7"), CM>> \o Row1 \o <<RB>>,
    <<LB, N("7"), RB>>,
    <<LB, LC, S("SB NO."), S("1")>> }

\* <<prefix, suffix>>: the prose around a body.
Wrappers ==
  { << <<>>, <<>> >>,
    << <<W("Sure")>>, <<W("Hope")>> >>,
    << <<>>, <<W("ref"), RB>> >>,
    << <<W("see"), LB, N("1"), RB>>, <<>> >> }

Responses == {w[1] \o b \o w[2] : w \in Wrappers, b \in Bodies}

\* The retry loop's pass over each response the collaborator may give.
Parsed == [txt \in Responses |-> ParseResponse(txt)]

\* What generate_json_from_gemini can return: a decoded response, or [].
Raws == {Parsed[t].v : t \in {r \in Responses : Parsed[r].ok}} \cup {VList(<<>>)}

\* normalize_extracted and the cleaning loop, tabulated over Raws.
Extracted ==
  [raw \in Raws |-> LET norm == normalize_extracted(raw)
                   IN [norm |-> norm, rows |-> CleanRows(norm)]]

\* str(e) of the exception a collaborator raises
ReadErrors == {"unreadable pdf"}
ModelErrors == {"model call failed"}

\* ------------------------------------------------------------ the state
\* nfiles   len(uploaded_files); a document's name is its position
\* idx      the document the for loop of process_uploaded_pdfs is at
\* pc       "read": about to read and load document idx; "invoke": inside
\*          generate_json_from_gemini, about to call llm.invoke; "done":
\*          process_uploaded_pdfs has returned (all_rows, errors)
\* attempt  the loop variable of generate_json_from_gemini
\* all_rows, errors   the two accumulators
\* History, which no code reads:
\* calls    the llm.invoke calls made for the document read last
\* fails    how many of them were answered by a text nothing decoded from
\* resp     the text of the latest answer to that document
\* last     how the document just finished ended (forgotten when the next
\*          one is read): its position, the way it ended, calls and fails,
\*          the value generate_json_from_gemini returned,
\*          normalize_extracted of it and the cleaned rows
\* row_src  for each row of all_rows, the document it came from
NoLast ==
  [doc |-> 0, how |-> "none", calls |-> 0, fails |-> 0, raw |-> VNull,
   norm |-> <<>>, rows |-> <<>>]

Init ==
  /\ nfiles \in 0..NumDocs
  /\ idx = 1
  /\ pc = "read"
  /\ attempt = 0
  /\ all_rows = <<>>
  /\ errors = <<>>
  /\ calls = 0
  /\ fails = 0
  /\ resp = <<>>
  /\ last = NoLast
  /\ row_src = <<>>

\* Mutant: a failed document is recorded and tried again (a retry above
\* generate_json_from_gemini).
Caught_RetryDocument(how, msg) ==
  /\ errors' = Append(errors, <<idx, msg>>)
  /\ last' = [doc |-> idx, how |-> how, calls |-> calls', fails |-> fails',
              raw |-> VNull, norm |-> <<>>, rows |-> <<>>]
  /\ idx' = idx
  /\ pc' = "read"
  /\ attempt' = 0
  /\ UNCHANGED <<nfiles, all_rows, row_src>>

\* Mutant: the try/except is around the loop, not inside it: the first
\* failure is recorded and ends the batch.
Caught_EndsBatch(how, msg) ==
  /\ errors' = Append(errors, <<idx, msg>>)
  /\ last' = [doc |-> idx, how |-> how, calls |-> calls', fails |-> fails',
              raw |-> VNull, norm |-> <<>>, rows |-> <<>>]
  /\ idx' = idx + 1
  /\ pc' = "done"
  /\ attempt' = 0
  /\ UNCHANGED <<nfiles, all_rows, row_src>>

\* The except clause of process_uploaded_pdfs, then the next iteration.
Caught(how, msg) ==
  /\ errors' = Append(errors, <<idx, msg>>)
  /\ last' = [doc |-> idx, how |-> how, calls |-> calls', fails |-> fails',
              raw |-> VNull, norm |-> <<>>, rows |-> <<>>]
  /\ idx' = idx + 1
  /\ pc' = "read"
  /\ attempt' = 0
  /\ UNCHANGED <<nfiles, all_rows, row_src>>

\* Mutant: the rows are extended without the `if not rows` test, so a
\* document without rows leaves no error entry.
Returned_NoEmptyCheck(how, raw) ==
  LET norm == normalize_extracted(raw)
      rows == CleanRows(norm)
  IN /\ all_rows' = all_rows \o rows
     /\ row_src' = row_src \o [i \in 1..Len(rows) |-> idx]
     /\ UNCHANGED errors
     /\ last' = [doc |-> idx, how |-> how, calls |-> calls', fails |-> fails',
                 raw |-> raw, norm |-> norm, rows |-> rows]
     /\ idx' = idx + 1
     /\ pc' = "read"
     /\ attempt' = 0
     /\ UNCHANGED nfiles

\* Mutant: all_rows = rows + all_rows.
Returned_Prepend(how, raw) ==
  LET norm == normalize_extracted(raw)
      rows == CleanRows(norm)
  IN /\ IF rows = <<>>
        THEN /\ errors' = Append(errors, <<idx, NoItemsMsg>>)
             /\ UNCHANGED <<all_rows, row_src>>
        ELSE /\ all_rows' = rows \o all_rows
             /\ row_src' = [i \in 1..Len(rows) |-> idx] \o row_src
             /\ UNCHANGED errors
     /\ last' = [doc |-> idx, how |-> how, calls |-> calls', fails |-> fails',
                 raw |-> raw, norm |-> norm, rows |-> rows]
     /\ idx' = idx + 1
     /\ pc' = "read"
     /\ attempt' = 0
     /\ UNCHANGED nfiles

\* generate_json_from_gemini returns raw: the rest of
\* process_single_pdf_bytes, then the if/else of process_uploaded_pdfs.
Returned(how, raw) ==
  LET norm == Extracted[raw].norm
      rows == Extracted[raw].rows
  IN /\ IF rows = <<>>
        THEN /\ errors' = Append(errors, <<idx, NoItemsMsg>>)
             /\ UNCHANGED <<all_rows, row_src>>
        ELSE /\ all_rows' = all_rows \o rows
             /\ row_src' = row_src \o [i \in 1..Len(rows) |-> idx]
             /\ UNCHANGED errors
     /\ last' = [doc |-> idx, how |-> how, calls |-> calls', fails |-> fails',
                 raw |-> raw, norm |-> norm, rows |-> rows]
     /\ idx' = idx + 1
     /\ pc' = "read"
     /\ attempt' = 0
     /\ UNCHANGED nfiles

\* f.read() and loader.load() succeed: the prompt is built and
\* generate_json_from_gemini is entered.
ReadOk ==
  /\ pc = "read" /\ idx <= nfiles
  /\ pc' = "invoke"
  /\ attempt' = 0
  /\ calls' = 0 /\ fails' = 0 /\ resp' = <<>>
  /\ last' = NoLast
  /\ UNCHANGED <<nfiles, idx, all_rows, errors, row_src>>

\* f.read() or loader.load() raises.
ReadRaise(msg) ==
  /\ pc = "read" /\ idx <= nfiles
  /\ calls' = 0 /\ fails' = 0 /\ resp' = <<>>
  /\ Caught("read_raise", msg)

\* Mutant: llm.invoke is inside a try whose except returns [].
InvokeRaise_AsEmpty(msg) ==
  /\ pc = "invoke"
  /\ calls' = calls + 1
  /\ UNCHANGED <<fails, resp>>
  /\ Returned("invoke_raise", VList(<<>>))

\* llm.invoke raises: nothing in generate_json_from_gemini catches it.
InvokeRaise(msg) ==
  /\ pc = "invoke"
  /\ calls' = calls + 1
  /\ UNCHANGED <<fails, resp>>
  /\ Caught("invoke_raise", msg)

\* llm.invoke answers txt and one of the two json.loads succeeds.
AttemptReturn(txt) ==
  /\ pc = "invoke"
  /\ Parsed[txt].ok
  /\ calls' = calls + 1
  /\ UNCHANGED fails
  /\ resp' = txt
  /\ Returned("returned", Parsed[txt].v)

\* llm.invoke answers txt, nothing decodes, and range(retries) has more.
AttemptRetry(txt) ==
  /\ pc = "invoke"
  /\ ~Parsed[txt].ok
  /\ attempt + 1 < retries
  /\ calls' = calls + 1
  /\ fails' = fails + 1
  /\ resp' = txt
  /\ attempt' = attempt + 1
  /\ UNCHANGED <<nfiles, idx, pc, all_rows, errors, last, row_src>>

\* Mutant: the loop is range(retries - 1).
AttemptExhaust_OneShort(txt) ==
  /\ pc = "invoke"
  /\ ~Parsed[txt].ok
  /\ attempt + 1 >= retries - 1
  /\ calls' = calls + 1
  /\ fails' = fails + 1
  /\ resp' = txt
  /\ Returned("exhausted", VList(<<>>))

\* llm.invoke answers txt, nothing decodes, and the loop is over: return [].
AttemptExhaust(txt) ==
  /\ pc = "invoke"
  /\ ~Parsed[txt].ok
  /\ attempt + 1 >= retries
  /\ calls' = calls + 1
  /\ fails' = fails + 1
  /\ resp' = txt
  /\ Returned("exhausted", VList(<<>>))

\* The for loop of process_uploaded_pdfs ends: return all_rows, errors.
LoopExit ==
  /\ pc = "read" /\ idx > nfiles
  /\ pc' = "done"
  /\ UNCHANGED <<nfiles, idx, attempt, all_rows, errors, calls, fails, resp,
                 last, row_src>>

Next ==
  \/ ReadOk
  \/ \E msg \in ReadErrors : ReadRaise(msg)
  \/ \E msg \in ModelErrors : InvokeRaise(msg)
  \/ \E txt \in Responses : AttemptReturn(txt)
  \/ \E txt \in Responses : AttemptRetry(txt)
  \/ \E txt \in Responses : AttemptExhaust(txt)
  \/ LoopExit

Spec == Init /\ [][Next]_vars

\* ================================================================ claims
\* The document that was being processed has just ended (its rows or its
\* error entry are in the accumulators) and no later one has been read.
DocEnded == pc \in {"read", "done"} /\ last.doc > 0

\* The rows and the error entries of document d.
RowsOf(d) == {i \in 1..Len(row_src) : row_src[i] = d}
ErrorsOf(d) == {i \in 1..Len(errors) : errors[i][1] = d}

HasKey(v, k) == \E i \in 1..Len(v.m) : v.m[i][1] = k

\* ------------------------------------------------------------------- C1
\* C1: every Record of the list process_uploaded_pdfs accumulates and
\* returns has exactly the 51 names of COLUMNS as its keys: none is missing
\* and no other key (such as "extra") is present.
C1_RecordKeysAreSchema ==
  \A i \in 1..Len(all_rows) :
    /\ \A j \in 1..Len(COLUMNS) : COLUMNS[j] \in DOMAIN all_rows[i]
    /\ \A k \in DOMAIN all_rows[i] : \E j \in 1..Len(COLUMNS) : COLUMNS[j] = k
    /\ "extra" \notin DOMAIN all_rows[i]

\* A batch has returned a Record made from a candidate that has the key
\* "extra" and lacks the column "Qty".
C1_Witness ==
  /\ pc = "done" /\ last.how = "returned"
  /\ \E i \in 1..Len(last.norm) :
       /\ IsDict(last.norm[i])
       /\ HasKey(last.norm[i], "extra")
       /\ ~HasKey(last.norm[i], "Qty")
  /\ Len(all_rows) > 0

\* ------------------------------------------------------------------- C2
\* C2: every value of every Record is a string: the candidate's value
\* coerced to string when the candidate has the key, "" otherwise; never
\* null, a number, a list or a mapping.
C2_RecordValuesAreStrings ==
  \A i \in 1..Len(all_rows) : \A col \in DOMAIN all_rows[i] :
    all_rows[i][col].t = "str"

\* ------------------------------------------------------------------- C3
\* C3: when a document fails (its read or load raises, or the model call
\* made for it raises), the batch goes on with the next document instead of
\* ending, the rows accumulated so far stay as they are, no row is added,
\* and exactly one error entry, naming the failed document, is appended;
\* the batch returns only after the last document, and no document ever has
\* more than one error entry.
C3_FailureIsIsolated ==
  /\ [][(idx' = idx + 1 /\ last'.how \in {"read_raise", "invoke_raise"}) =>
          /\ pc' = "read"
          /\ nfiles' = nfiles
          /\ all_rows' = all_rows
          /\ row_src' = row_src
          /\ Len(errors') = Len(errors) + 1
          /\ SubSeq(errors', 1, Len(errors)) = errors
          /\ errors'[Len(errors')][1] = idx]_vars
  /\ [](pc = "done" => idx = nfiles + 1)
  /\ [](\A d \in 1..NumDocs : Cardinality(ErrorsOf(d)) <= 1)

\* Three documents, the second failed to be read: the batch has returned
\* the Records of the first and of the third and one error entry, naming
\* the second.
C3_Witness ==
  /\ pc = "done" /\ nfiles = 3
  /\ errors = << <<2, "unreadable pdf">> >>
  /\ RowsOf(1) # {} /\ RowsOf(3) # {} /\ RowsOf(2) = {}

\* ------------------------------------------------------------------- C4
\* C4: if every model call made for a document was answered by a text from
\* which nothing decodes (neither the whole text nor the bracketed block),
\* generate_json_from_gemini returns the empty list without raising, after
\* exactly `retries` model calls.
C4_ExhaustedReturnsEmpty ==
  (DocEnded /\ last.calls > 0 /\ last.fails = last.calls) =>
    /\ last.how = "exhausted"
    /\ last.raw = VList(<<>>)
    /\ last.calls = retries
    /\ errors[Len(errors)] = <<last.doc, NoItemsMsg>>

\* A document has ended after `retries` answers, none of which decoded.
C4_Witness ==
  /\ DocEnded /\ last.fails = retries /\ last.calls = retries
  /\ ~json_loads(resp).ok
  /\ last.raw = VList(<<>>)

\* ------------------------------------------------------------------- C5
\* Something decodes from a text: the whole of it, or else its block.
Decodes(txt) ==
  \/ json_loads(txt).ok
  \/ /\ _extract_json_block(txt) # <<>>
     /\ json_loads(_extract_json_block(txt)).ok

DecodedOf(txt) ==
  IF json_loads(txt).ok THEN json_loads(txt).v
  ELSE json_loads(_extract_json_block(txt)).v

\* C5 as stated: generate_json_from_gemini stops before its last attempt
\* only on an answer that decodes to a non-empty value; an answer that
\* decodes to an empty value ([] or {}) does not end the loop.
C5_StopsOnlyOnNonEmptyValue ==
  (DocEnded /\ last.how \in {"returned", "exhausted"} /\ last.calls < retries) =>
    (last.raw # VList(<<>>) /\ last.raw # VDict(<<>>))

\* C5 as amended: generate_json_from_gemini stops before its last attempt
\* exactly when an answer decodes (the whole text or its block), whether
\* the decoded value is empty or not: it returns that value at the first
\* such attempt k, having made exactly k model calls; an answer from which
\* nothing decodes is followed by the next attempt while attempts remain.
C5_StopsOnFirstDecode ==
  /\ (DocEnded /\ last.how = "returned") =>
       /\ Decodes(resp)
       /\ last.raw = DecodedOf(resp)
       /\ last.calls = last.fails + 1
       /\ last.calls <= retries
  /\ (DocEnded /\ last.how = "exhausted") =>
       /\ ~Decodes(resp)
       /\ last.calls = retries
  /\ (pc = "invoke" /\ calls > 0) =>
       /\ ~Decodes(resp)
       /\ calls = fails
       /\ calls < retries
  /\ (calls > 0 /\ resp # <<>> /\ Decodes(resp)) =>
       (DocEnded /\ last.how = "returned")

\* The second answer to a document decoded to the empty list and ended the
\* loop there, after a first answer from which nothing decoded.
C5_Witness ==
  /\ DocEnded /\ last.how = "returned"
  /\ last.calls = 2 /\ last.fails = 1
  /\ last.raw = VList(<<>>)

\* ------------------------------------------------------------------- C6
\* C6: every document the batch has gone past either contributed at least
\* one Record and has no error entry, or contributed none and has exactly
\* one error entry; the batch returns only after the last document; a
\* document whose pipeline gives no Record without raising gets the
\* "No material items extracted" entry; and a batch without a successful
\* document returns no Record and one error entry per document.
C6_OneOutcomePerDocument ==
  /\ Len(row_src) = Len(all_rows)
  /\ \A d \in 1..NumDocs :
       IF d < idx
       THEN \/ RowsOf(d) # {} /\ ErrorsOf(d) = {}
            \/ RowsOf(d) = {} /\ Cardinality(ErrorsOf(d)) = 1
       ELSE RowsOf(d) = {} /\ ErrorsOf(d) = {}
  /\ pc = "done" => idx = nfiles + 1
  /\ (DocEnded /\ last.how \in {"returned", "exhausted"} /\ last.rows = <<>>) =>
       errors[Len(errors)] = <<last.doc, NoItemsMsg>>
  /\ (pc = "done" /\ \A d \in 1..nfiles : RowsOf(d) = {}) =>
       (all_rows = <<>> /\ Len(errors) = nfiles)

\* A batch of three documents has returned without a Record: the first
\* could not be read, and the answer to the third decoded to a value that
\* gave no Record.
C6_Witness ==
  /\ pc = "done" /\ nfiles = 3
  /\ all_rows = <<>> /\ Len(errors) = 3
  /\ errors[1] = <<1, "unreadable pdf">>
  /\ last.how = "returned" /\ last.doc = 3 /\ last.rows = <<>>
  /\ errors[3] = <<3, NoItemsMsg>>

\* ------------------------------------------------------------------- C7
IsPrefix(a, b) == a = b \/ (Len(a) <= Len(b) /\ \A i \in 1..Len(a) : b[i] = a[i])

\* The position of the i-th mapping of a normalized sequence.
NthDict(norm, i) ==
  CHOOSE p \in 1..Len(norm) :
    IsDict(norm[p]) /\ Cardinality({q \in 1..p : IsDict(norm[q])}) = i

\* The mappings of the normalized sequences, and the Record of each.
Mappings ==
  UNION {{Extracted[raw].norm[q] :
            q \in {p \in 1..Len(Extracted[raw].norm) : IsDict(Extracted[raw].norm[p])}} :
         raw \in Raws}
RecordOf == [d \in Mappings |-> CleanRow(d)]

\* C7: the Records are in the order the documents were processed and,
\* within a document, in the order of the mappings of its normalized
\* sequence; the error entries are in the order the documents were
\* processed; and both sequences only grow at the end: no step removes,
\* moves or changes a Record or an error entry already accumulated.
C7_OrderedAppendOnly ==
  /\ [][/\ IsPrefix(all_rows, all_rows')
        /\ IsPrefix(errors, errors')
        /\ IsPrefix(row_src, row_src')
        /\ all_rows' # all_rows =>
             LET n == Len(all_rows)
                 norm == last'.norm
             IN /\ Len(all_rows') - n
                     = Cardinality({q \in 1..Len(norm) : IsDict(norm[q])})
                /\ \A i \in 1..(Len(all_rows') - n) :
                     all_rows'[n + i] = RecordOf[norm[NthDict(norm, i)]]
                /\ \A i \in Len(row_src) + 1..Len(row_src') : row_src'[i] = idx]_vars
  /\ [](/\ Len(row_src) = Len(all_rows)
        /\ \A i, j \in 1..Len(row_src) : i < j => row_src[i] <= row_src[j]
        /\ \A i, j \in 1..Len(errors) : i < j => errors[i][1] < errors[j][1])

\* A batch has returned the two Records of its first document, in the
\* order of its answer, before the Record of its third; the second left an
\* error entry.
C7_Witness ==
  /\ pc = "done"
  /\ row_src = <<1, 1, 3>>
  /\ all_rows[1]["SB NO."] = VStr("1")
  /\ all_rows[2]["SB NO."] = VStr("2")
  /\ Len(errors) = 1 /\ errors[1][1] = 2

\* ------------------------------------------------------------------- C8
IsMappingSeq(v) == v.t = "list" /\ \A i \in 1..Len(v.e) : v.e[i].t = "dict"

\* C8 as stated: a decoded value that is neither a sequence of mappings nor
\* a mapping (a scalar, null, or a sequence with a non-mapping element) is
\* normalized to the empty sequence, and a sequence is returned unchanged
\* only when all its elements are mappings.
C8_OtherShapesGiveEmpty ==
  (DocEnded /\ last.how = "returned") =>
    /\ (last.raw.t # "dict" /\ ~IsMappingSeq(last.raw)) => last.norm = <<>>
    /\ (last.raw.t = "list" /\ last.norm = last.raw.e) => IsMappingSeq(last.raw)

\* C8 as amended: a decoded value that is neither a sequence nor a mapping
\* (a string, a number, null) is normalized to the empty sequence; a
\* sequence is returned unchanged whatever its elements are, those that are
\* no mappings included.
C8_ScalarsGiveEmptyListsUnchanged ==
  (DocEnded /\ last.how = "returned") =>
    /\ last.raw.t \notin {"list", "dict"} => last.norm = <<>>
    /\ last.raw.t = "list" => last.norm = last.raw.e

\* The answer decoded to a sequence of a number and a mapping, and the
\* normalized sequence is that sequence.
C8_Witness ==
  /\ DocEnded /\ last.how = "returned"
  /\ last.raw.t = "list" /\ Len(last.raw.e) = 2
  /\ last.raw.e[1].t = "num" /\ last.raw.e[2].t = "dict"
  /\ last.norm = last.raw.e

\* ------------------------------------------------------------------- C9
IsNonEmptyMappingSeq(v) == IsMappingSeq(v) /\ v.e # <<>>

\* C9 as stated: a mapping is normalized to its first value, in insertion
\* order, that is a sequence of mappings; a mapping whose sequence values
\* are all empty or hold a non-mapping is normalized to the one-element
\* sequence of the mapping itself.
C9_FirstNonEmptyMappingSeqOrSelf ==
  (DocEnded /\ last.how = "returned" /\ last.raw.t = "dict") =>
    LET m == last.raw.m IN
      IF \E i \in 1..Len(m) : IsNonEmptyMappingSeq(m[i][2])
      THEN \E i \in 1..Len(m) :
             /\ IsNonEmptyMappingSeq(m[i][2])
             /\ \A j \in 1..(i - 1) : ~IsNonEmptyMappingSeq(m[j][2])
             /\ last.norm = m[i][2].e
      ELSE last.norm = <<last.raw>>

\* C9 as amended: a mapping is normalized to its first value, in insertion
\* order, that is a sequence all of whose elements are mappings, an empty
\* sequence being one (earlier values that are scalars or sequences with a
\* non-mapping element are skipped); a mapping without such a value is
\* normalized to the one-element sequence of the mapping itself.
C9_FirstMappingSeqOrSelf ==
  (DocEnded /\ last.how = "returned" /\ last.raw.t = "dict") =>
    LET m == last.raw.m IN
      IF \E i \in 1..Len(m) : IsMappingSeq(m[i][2])
      THEN \E i \in 1..Len(m) :
             /\ IsMappingSeq(m[i][2])
             /\ \A j \in 1..(i - 1) : ~IsMappingSeq(m[j][2])
             /\ last.norm = m[i][2].e
      ELSE last.norm = <<last.raw>>

\* The answer decoded to a mapping whose first value is the empty sequence
\* and whose second is a sequence of one mapping: the normalized sequence
\* is the empty one.
C9_Witness ==
  /\ DocEnded /\ last.how = "returned"
  /\ last.raw.t = "dict" /\ Len(last.raw.m) = 2
  /\ last.raw.m[1][2] = VList(<<>>)
  /\ IsNonEmptyMappingSeq(last.raw.m[2][2])
  /\ last.norm = <<>>

\* ------------------------------------------------------------------ C10
\* A text is an array or an object.
IsArrayOrObject(b) == json_loads(b).ok /\ json_loads(b).v.t \in {"list", "dict"}

\* Prose: words and brackets, no part of which is an array or an object.
IsProse(w) ==
  /\ \A i \in 1..Len(w) : w[i].k \in {"w", "p"}
  /\ \A i \in 1..Len(w) : \A j \in i..Len(w) : ~IsArrayOrObject(SubSeq(w, i, j))

\* Prose without any of the characters [ ] { }.
IsBracketFreeProse(w) == \A i \in 1..Len(w) : w[i].k = "w"

\* The first answer to the document has been received.
FirstAnswered == calls = 1 /\ resp # <<>>

\* C10 as stated: if the first answer is prose around one valid array or
\* object and does not decode as a whole, the fallback decodes that array
\* or object: generate_json_from_gemini returns it at the first attempt,
\* after exactly one model call.
C10_ProseWrappedDecodes ==
  \A w \in Wrappers : \A b \in Bodies :
    ( /\ FirstAnswered
      /\ resp = w[1] \o b \o w[2]
      /\ IsProse(w[1]) /\ IsProse(w[2])
      /\ IsArrayOrObject(b)
      /\ ~json_loads(resp).ok ) =>
    /\ DocEnded /\ last.how = "returned"
    /\ last.calls = 1
    /\ last.raw = json_loads(b).v

\* C10 as amended: if the first answer is prose that holds none of the
\* characters [ ] { } around one valid array or object and does not decode
\* as a whole, the fallback's block, from the first opening bracket to the
\* last closing bracket of its kind, is that array or object:
\* generate_json_from_gemini returns it at the first attempt, after exactly
\* one model call.  One block is tried per answer: when a valid array is
\* followed by prose that holds a ], the block runs up to that ] and does
\* not decode, and the answer gives no value (the next attempt follows).
C10_BracketFreeProseWrappedDecodes ==
  /\ \A w \in Wrappers : \A b \in Bodies :
       ( /\ FirstAnswered
         /\ resp = w[1] \o b \o w[2]
         /\ IsBracketFreeProse(w[1]) /\ IsBracketFreeProse(w[2])
         /\ IsArrayOrObject(b)
         /\ ~json_loads(resp).ok ) =>
       /\ DocEnded /\ last.how = "returned"
       /\ last.calls = 1
       /\ last.raw = json_loads(b).v
  /\ \A w \in Wrappers : \A b \in Bodies :
       ( /\ FirstAnswered
         /\ resp = w[1] \o b \o w[2]
         /\ w[1] = <<>> /\ IsProse(w[2])
         /\ \E i \in 1..Len(w[2]) : w[2][i] = RB
         /\ IsArrayOrObject(b) /\ json_loads(b).v.t = "list" ) =>
       (pc = "invoke" /\ last.how = "none")

\* The first answer was Sure [{"SB NO.": "1"}] Hope, and the document
\* ended with the list of that one mapping after one model call.
C10_Witness ==
  /\ FirstAnswered /\ DocEnded /\ last.how = "returned" /\ last.calls = 1
  /\ resp = <<W("Sure"), LB>> \o Row1 \o <<RB, W("Hope")>>
  /\ last.raw = VList(<<VDict(<< <<"SB NO.", VStr("1")>> >>)>>)

\* ------------------------------------------------------------------ C11
\* The positions of the mappings of a normalized sequence.
DictPositions(norm) == {q \in 1..Len(norm) : norm[q].t = "dict"}

\* The value a mapping gives to a column, "" if it has none.
ValueAt(v, col) ==
  IF \E i \in 1..Len(v.m) : v.m[i][1] = col
  THEN (CHOOSE pr \in {v.m[i] : i \in 1..Len(v.m)} : pr[1] = col)[2]
  ELSE VStr("")

\* C11: the rows made from a normalized sequence are one Record per element
\* that is a mapping, in the order of the sequence, each holding the
\* mapping's values; the elements that are no mappings are dropped without
\* an error: a document whose normalized sequence holds a mapping gets as
\* many Records as the sequence has mappings and no error entry.
C11_OneRecordPerMapping ==
  (DocEnded /\ last.how \in {"returned", "exhausted"}) =>
    /\ Len(last.rows) = Cardinality(DictPositions(last.norm))
    /\ \A i \in 1..Len(last.rows) : \A col \in ColumnSet :
         last.rows[i][col] = ValueAt(last.norm[NthDict(last.norm, i)], col)
    /\ DictPositions(last.norm) # {} =>
         /\ Cardinality(RowsOf(last.doc)) = Cardinality(DictPositions(last.norm))
         /\ ErrorsOf(last.doc) = {}
         /\ SubSeq(all_rows, Len(all_rows) - Len(last.rows) + 1, Len(all_rows))
              = last.rows

\* The normalized sequence of the document just ended is a number followed
\* by a mapping: the document has one Record, the mapping's, and no error
\* entry.
C11_Witness ==
  /\ DocEnded /\ last.how = "returned"
  /\ Len(last.norm) = 2
  /\ last.norm[1].t = "num" /\ last.norm[2].t = "dict"
  /\ Cardinality(RowsOf(last.doc)) = 1
  /\ ErrorsOf(last.doc) = {}
  /\ all_rows[Len(all_rows)]["SB NO."] = VStr("1")

\* ------------------------------------------------------------------ C12
\* The model calls the rest of the batch can still make: what is left of
\* the attempts of the document being processed, and `retries` for each
\* document not yet read.
CallsLeft ==
  CASE pc = "invoke" -> (retries - calls) + retries * (nfiles - idx)
    [] pc = "read" -> retries * (nfiles + 1 - idx)
    [] OTHER -> 0

\* The steps the batch can still take: for each document not yet read one
\* read and `retries` attempts, and the return.
StepsLeft ==
  CASE pc = "invoke" -> 1 + (retries + 1) * (nfiles + 1 - idx) - (1 + attempt)
    [] pc = "read" -> 1 + (retries + 1) * (nfiles + 1 - idx)
    [] OTHER -> 0

\* C12: in one batch each document is attempted once: the loop never goes
\* back to a document, its text extraction runs once and
\* generate_json_from_gemini is entered at most once for it (left only for
\* the next document); no more than `retries` model calls are made for a
\* document, and none for a document whose text extraction fails.  The
\* budget of 3 * nfiles model calls the batch starts with goes down by one
\* at every model call and never up, so the batch makes at most 3 * nfiles
\* calls; and every step uses up the bounded number of steps left, while
\* a batch that has not returned can always take a step: it terminates.
C12_AttemptedOnceBoundedCalls ==
  /\ [](/\ calls <= retries /\ last.calls <= retries
        /\ last.how = "read_raise" => last.calls = 0
        /\ pc = "read" => (idx <= nfiles + 1)
        /\ CallsLeft >= 0 /\ CallsLeft <= retries * nfiles
        /\ StepsLeft >= 0
        /\ pc = "done" \/ ENABLED Next)
  /\ [][/\ idx' \in {idx, idx + 1}
        /\ nfiles' = nfiles
        /\ (pc = "read" /\ pc' = "invoke") => (idx' = idx /\ calls' = 0)
        /\ pc' = "invoke" => (pc \in {"read", "invoke"} /\ idx' = idx)
        /\ (pc = "invoke" /\ pc' # "invoke") => (pc' = "read" /\ idx' = idx + 1)
        /\ (pc = "read" /\ pc' = "read") => (idx' = idx + 1 /\ calls' = 0)
        /\ calls' # calls => (calls' = calls + 1 /\ pc = "invoke") \/ calls' = 0
        /\ calls' = calls + 1 => CallsLeft' <= CallsLeft - 1
        /\ CallsLeft' <= CallsLeft
        /\ StepsLeft' < StepsLeft]_vars

\* A batch of three documents has returned: the first could not be read
\* (no model call), and the third used up its three attempts.
C12_Witness ==
  /\ pc = "done" /\ nfiles = 3
  /\ Len(errors) >= 1 /\ errors[1] = <<1, "unreadable pdf">>
  /\ last.doc = 3 /\ last.how = "exhausted" /\ last.calls = retries
  /\ CallsLeft = 0 /\ StepsLeft = 0

\* ------------------------------------------------------------------ C13
\* C13: the retries are for answers that do not decode only.  When the
\* model call itself raises at attempt k, no further attempt is made for
\* the document (exactly k calls, k - 1 of them answered by a text nothing
\* decoded from, also when k is below `retries`); the exception leaves
\* generate_json_from_gemini, which returns no value, and the document gets
\* one error entry, holding the exception's message and not the
\* "No material items extracted" one, and no Record.
C13_ModelFailureEndsDocument ==
  /\ []((DocEnded /\ last.how = "invoke_raise") =>
          /\ last.calls = last.fails + 1
          /\ last.calls <= retries
          /\ last.rows = <<>> /\ RowsOf(last.doc) = {}
          /\ Cardinality(ErrorsOf(last.doc)) = 1
          /\ errors[Len(errors)][1] = last.doc
          /\ errors[Len(errors)][2] \in ModelErrors
          /\ errors[Len(errors)][2] # NoItemsMsg)
  /\ [][(last'.how = "invoke_raise" /\ last.how # "invoke_raise") =>
          /\ pc = "invoke" /\ pc' = "read"
          /\ calls' = calls + 1 /\ fails' = fails /\ fails = attempt
          /\ idx' = idx + 1
          /\ all_rows' = all_rows
          /\ \E msg \in ModelErrors : errors' = Append(errors, <<idx, msg>>)]_vars

\* The second model call for a document raised, after a first answer from
\* which nothing decoded: the document ended there, with the exception's
\* message as its error entry.
C13_Witness ==
  /\ DocEnded /\ last.how = "invoke_raise"
  /\ last.calls = 2 /\ last.fails = 1
  /\ errors[Len(errors)] = <<last.doc, "model call failed">>
  /\ RowsOf(last.doc) = {}

====
